---- MODULE Spec2Model ----
(***************************************************************************)
(* The FreelanceEscrow ledger (contracts/FreelanceEscrow.sol, kept in       *)
(* src/unnamed/part_003) as a state machine.  Every external call is one    *)
(* atomic transaction: a failing require reverts it, so a rejected call     *)
(* changes nothing but the record of the last call.                         *)
(*                                                                         *)
(* Scope of the model:                                                      *)
(*  - client and freelancer are distinct accounts (the application takes    *)
(*    them from profiles of the distinct roles 'client' and 'freelancer');  *)
(*  - the recipient of an outward transfer may refuse it (a contract        *)
(*    account that reverts, a token that returns false): the input `accept` *)
(*    of the paying operations; a recipient does not call back into the     *)
(*    ledger while it is being paid;                                        *)
(*  - the ERC20 token is an honest one: transferFrom moves exactly the      *)
(*    amount asked for or fails (input `tokenOk`: allowance and balance of  *)
(*    the client), transfer fails when the ledger holds too little.         *)
(***************************************************************************)
EXTENDS Integers, Sequences, FiniteSets, TLC

\* ---- bounds of the model ----
MaxSlots    == 2      \* most milestone slots of one ledger
MaxAmount   == 2      \* largest slot amount
MaxDeposits == 2      \* most successful depositFunds calls in one behaviour
MaxDirect   == 1      \* most direct transfers (receive/fallback)
MaxAttempts == 3      \* most verify and pay handler runs of the application

\* ---- accounts, assets, inputs ----
client     == "client"
freelancer == "freelancer"
Addresses  == {client, freelancer}   \* msg.sender is only ever compared with client

NATIVE == "native"     \* paymentToken == address(0)
ERC20  == "erc20"      \* paymentToken != address(0)

Hashes == {"h1", "h2"}

VARIABLES
    paymentToken,       \* NATIVE or ERC20, fixed by the constructor
    totalAmount,        \* uint256 totalAmount
    isActive,           \* bool isActive
    milestones,         \* Milestone[]: index 0..n-1 -> [amount, isPaid, isVerified, verificationHash]
    balance,            \* address(this).balance
    tokenBalance,       \* IERC20(paymentToken).balanceOf(address(this))
    freelancerReceived, \* everything the contract has sent to the freelancer
    clientRefunded,     \* everything the contract has sent back to the client
    deposits,           \* history: number of successful depositFunds calls
    directs,            \* history: number of direct transfers
    verifiedCalls,      \* history: slot -> number of successful verifyMilestone calls
    paidCalls,          \* history: slot -> number of successful releaseMilestonePayment calls
    cancels,            \* history: number of successful cancelEscrow calls
    last,               \* the last call: [op, sender, index, value, result, moved]
    \* -- the off-chain store (supabase tables) --
    status,             \* milestones.status, by order_index
    projectStatus,      \* projects.status
    transactions,       \* order_index -> number of milestone_payment rows in transactions
    verificationLogs,   \* order_index -> [success, failed]: rows of verification_logs by status
    vtype,              \* milestones.verification_type, by order_index
    creation,           \* CreateProject.handleSubmit: "none", "inserted" or "done"
    \* -- the ProjectDetails sessions (one per open page) --
    view,               \* session -> the milestones state of the component (status by order_index)
    pc,                 \* session -> the await the running handler is at, or "idle"
    cur,                \* session -> the order_index of the milestone being handled
    verdict,            \* session -> result.verified of the oracle response held by the handler
    response,           \* session -> the kind of oracle response the verify handler holds
    outcome,            \* session -> how the last handler run ended: "none", "ok", "error", "crashed"
    attempts,           \* history: number of verify and pay handler runs started
    \* -- transactions sent to the ledger by the application --
    passed,             \* history: slot -> the hashes passed to verifyMilestone
    mempool,            \* transactions sent by payMilestoneDirectly and not yet mined
    helper,             \* payMilestoneDirectly: [stage, index], stage "idle" or "waiting"
    \* -- the functions beside the handlers --
    oracle,             \* one invocation of an oracle function: its request and its reply
    deploy              \* deployEscrowContract / CreateProject.handleSubmit: the run in progress

ledgerVars == <<paymentToken, totalAmount, isActive, milestones, balance,
                tokenBalance, freelancerReceived, clientRefunded>>
histVars   == <<deposits, directs, verifiedCalls, paidCalls, cancels>>
storeVars  == <<status, projectStatus, transactions, verificationLogs, vtype, creation>>
sessVars   == <<view, pc, cur, verdict, response, outcome, attempts>>
sentVars   == <<passed, mempool, helper>>
toolVars   == <<oracle, deploy>>
coordVars  == <<status, projectStatus, transactions, verificationLogs, vtype, creation,
                view, pc, cur, verdict, response, outcome, attempts,
                passed, mempool, helper, oracle, deploy>>
vars       == <<paymentToken, totalAmount, isActive, milestones, balance,
                tokenBalance, freelancerReceived, clientRefunded,
                deposits, directs, verifiedCalls, paidCalls, cancels, last,
                status, projectStatus, transactions, verificationLogs, vtype, creation,
                view, pc, cur, verdict, response, outcome, attempts,
                passed, mempool, helper, oracle, deploy>>

\* ---- sessions of the application ----
ClientSessions == {"c1", "c2"}        \* pages opened by the client (isClient)
FreelancerSessions == {"f1"}          \* pages opened by the freelancer (isFreelancer)
Sessions == ClientSessions \cup FreelancerSessions

Slots == DOMAIN milestones
NoIndex == -1

RECURSIVE SumOver(_, _)
SumOver(f, S) ==
    IF S = {} THEN 0
    ELSE LET i == CHOOSE x \in S : TRUE IN f[i] + SumOver(f, S \ {i})

\* sum of the amounts of the slots of ms that satisfy the paid flag p
SumAmounts(ms, p) ==
    SumOver([i \in DOMAIN ms |-> ms[i].amount], {i \in DOMAIN ms : ms[i].isPaid = p})

\* the custodied balance in the funding asset (getRemainingBalance)
getRemainingBalance ==
    IF paymentToken = NATIVE THEN balance ELSE tokenBalance

\* one call: msg.sender, the slot index and msg.value passed, its outcome, and
\* the amount of the funding asset it moved into or out of the contract
Call(op, sender, index, value, result, moved) ==
    [op |-> op, sender |-> sender, index |-> index, value |-> value,
     result |-> result, moved |-> moved]

\* ---- constructor ----
\* faulty variant: the require on each milestone amount is missing
Constructor_NoPositiveCheck(token, amounts) ==
    /\ DOMAIN amounts # {}
    /\ paymentToken = token
    /\ milestones = [i \in DOMAIN amounts |->
                       [amount |-> amounts[i], isPaid |-> FALSE,
                        isVerified |-> FALSE, verificationHash |-> ""]]
    /\ totalAmount = SumOver(amounts, DOMAIN amounts)
    /\ isActive = FALSE

\* the deployment succeeds only when both requires on _milestoneAmounts pass
Constructor(token, amounts) ==
    /\ DOMAIN amounts # {}
    /\ \A i \in DOMAIN amounts : amounts[i] > 0
    /\ paymentToken = token
    /\ milestones = [i \in DOMAIN amounts |->
                       [amount |-> amounts[i], isPaid |-> FALSE,
                        isVerified |-> FALSE, verificationHash |-> ""]]
    /\ totalAmount = SumOver(amounts, DOMAIN amounts)
    /\ isActive = FALSE

\* the _milestoneAmounts of a ledger of n slots: 1, 2, .., MaxAmount, 1, 2, ..
MilestoneAmounts(n) == [i \in 0..(n - 1) |-> (i % MaxAmount) + 1]

\* the arrays a deployment of n slots is tried with: the amounts above, and
\* the same with a first amount of zero
ConstructorInputs(n) ==
    {MilestoneAmounts(n), [MilestoneAmounts(n) EXCEPT ![0] = 0]}

\* the ledger right after deployment, for a funding asset among tokens
LedgerInit(tokens) ==
    /\ \E n \in 1..MaxSlots : \E token \in tokens :
         \E amounts \in ConstructorInputs(n) : Constructor(token, amounts)
    /\ balance = 0
    /\ tokenBalance = 0
    /\ freelancerReceived = 0
    /\ clientRefunded = 0
    /\ deposits = 0
    /\ directs = 0
    /\ verifiedCalls = [i \in DOMAIN milestones |-> 0]
    /\ paidCalls = [i \in DOMAIN milestones |-> 0]
    /\ cancels = 0
    /\ last = Call("constructor", client, NoIndex, 0, "ok", 0)

\* the sessions before any page is opened
SessionsInit ==
    /\ view = [s \in Sessions |-> [i \in Slots |-> "none"]]
    /\ pc = [s \in Sessions |-> "idle"]
    /\ cur = [s \in Sessions |-> NoIndex]
    /\ verdict = [s \in Sessions |-> FALSE]
    /\ response = [s \in Sessions |-> "nothing"]
    /\ outcome = [s \in Sessions |-> "none"]
    /\ attempts = 0
    /\ passed = [i \in Slots |-> {}]
    /\ mempool = <<>>
    /\ helper = [stage |-> "idle", index |-> NoIndex]

\* a ledger on its own: no project record refers to it
NoProject ==
    /\ status = [i \in Slots |-> "pending"]
    /\ projectStatus = "none"
    /\ transactions = [i \in Slots |-> 0]
    /\ verificationLogs = [i \in Slots |-> [success |-> 0, failed |-> 0]]
    /\ vtype = [i \in Slots |-> "manual"]
    /\ creation = "none"
    /\ SessionsInit

\* no oracle function has been invoked, no deployment has been started
NoReply == [status |-> 0, verified |-> FALSE, count |-> 0]
NoRequest ==
    [fn |-> "none", params |-> FALSE, minimum |-> [given |-> FALSE, value |-> 0],
     since |-> "", upstream |-> "ok", items |-> <<>>, reply |-> NoReply]
NoReceipt == [thrown |-> FALSE, found |-> FALSE, contractAddress |-> FALSE, status |-> 0]
NotDeploying ==
    [stage |-> "idle", sent |-> FALSE, tx |-> "none", attempt |-> 0,
     receipt |-> NoReceipt, result |-> "none"]
ToolsIdle ==
    /\ oracle = NoRequest
    /\ deploy = NotDeploying

Init ==
    /\ LedgerInit({NATIVE, ERC20})
    /\ NoProject
    /\ ToolsIdle

\* ---- depositFunds ----
\* faulty variant: the already-funded check is missing
depositFundsResult_NoFundedCheck(sender, value, tokenOk) ==
    IF sender # client THEN "OnlyClient"
    ELSE IF paymentToken = NATIVE
         THEN IF value = totalAmount THEN "ok" ELSE "AmountMismatch"
    ELSE IF value # 0 THEN "NativeWithToken"
    ELSE IF ~tokenOk THEN "TransferFailed"
    ELSE "ok"

\* faulty variant: any native amount of at least the total is accepted
depositFundsResult_AtLeast(sender, value, tokenOk) ==
    IF sender # client THEN "OnlyClient"
    ELSE IF isActive THEN "AlreadyFunded"
    ELSE IF paymentToken = NATIVE
         THEN IF value >= totalAmount THEN "ok" ELSE "AmountMismatch"
    ELSE IF value # 0 THEN "NativeWithToken"
    ELSE IF ~tokenOk THEN "TransferFailed"
    ELSE "ok"

\* faulty variant: the native check compares the contract's balance, which
\* holds the direct transfers and msg.value, with the total
depositFundsResult_CountsBalance(sender, value, tokenOk) ==
    IF sender # client THEN "OnlyClient"
    ELSE IF isActive THEN "AlreadyFunded"
    ELSE IF paymentToken = NATIVE
         THEN IF balance + value = totalAmount THEN "ok" ELSE "AmountMismatch"
    ELSE IF value # 0 THEN "NativeWithToken"
    ELSE IF ~tokenOk THEN "TransferFailed"
    ELSE "ok"

\* the first failing require of depositFunds, or "ok"
depositFundsResult(sender, value, tokenOk) ==
    IF sender # client THEN "OnlyClient"
    ELSE IF isActive THEN "AlreadyFunded"
    ELSE IF paymentToken = NATIVE
         THEN IF value = totalAmount THEN "ok" ELSE "AmountMismatch"
    ELSE IF value # 0 THEN "NativeWithToken"
    ELSE IF ~tokenOk THEN "TransferFailed"
    ELSE "ok"

DepositFunds(sender, value, tokenOk) ==
    LET r == depositFundsResult(sender, value, tokenOk) IN
    /\ r = "ok" => deposits < MaxDeposits
    /\ last' = Call("depositFunds", sender, NoIndex, value, r,
                    IF r # "ok" THEN 0
                    ELSE IF paymentToken = NATIVE THEN value ELSE totalAmount)
    /\ IF r = "ok"
       THEN /\ isActive' = TRUE
            /\ balance' = balance + value
            /\ tokenBalance' = IF paymentToken = ERC20
                               THEN tokenBalance + totalAmount ELSE tokenBalance
            /\ deposits' = deposits + 1
            /\ UNCHANGED <<paymentToken, totalAmount, milestones,
                           freelancerReceived, clientRefunded,
                           directs, verifiedCalls, paidCalls, cancels>>
       ELSE UNCHANGED <<ledgerVars, histVars>>

\* ---- verifyMilestone ----
\* faulty variant: an already verified slot can be verified again
verifyMilestoneResult_NoVerifiedCheck(sender, index) ==
    IF sender # client THEN "OnlyClient"
    ELSE IF ~isActive THEN "NotActive"
    ELSE IF index \notin Slots THEN "InvalidSlot"
    ELSE IF milestones[index].isPaid THEN "AlreadyPaid"
    ELSE "ok"

\* faulty variant: the onlyActive modifier is missing
verifyMilestoneResult_NoActiveCheck(sender, index) ==
    IF sender # client THEN "OnlyClient"
    ELSE IF index \notin Slots THEN "InvalidSlot"
    ELSE IF milestones[index].isPaid THEN "AlreadyPaid"
    ELSE IF milestones[index].isVerified THEN "AlreadyVerified"
    ELSE "ok"

\* the first failing require of verifyMilestone (modifiers first), or "ok"
verifyMilestoneResult(sender, index) ==
    IF sender # client THEN "OnlyClient"
    ELSE IF ~isActive THEN "NotActive"
    ELSE IF index \notin Slots THEN "InvalidSlot"
    ELSE IF milestones[index].isPaid THEN "AlreadyPaid"
    ELSE IF milestones[index].isVerified THEN "AlreadyVerified"
    ELSE "ok"

VerifyMilestone(sender, index, hash) ==
    LET r == verifyMilestoneResult(sender, index) IN
    /\ last' = Call("verifyMilestone", sender, index, 0, r, 0)
    /\ IF r = "ok"
       THEN /\ milestones' = [milestones EXCEPT ![index].isVerified = TRUE,
                                                ![index].verificationHash = hash]
            /\ verifiedCalls' = [verifiedCalls EXCEPT ![index] = @ + 1]
            /\ UNCHANGED <<paymentToken, totalAmount, isActive, balance,
                           tokenBalance, freelancerReceived, clientRefunded,
                           deposits, directs, paidCalls, cancels>>
       ELSE UNCHANGED <<ledgerVars, histVars>>

\* ---- outward transfers ----
\* freelancer.call{value: amount}("") / IERC20.transfer: succeeds when the
\* contract holds the amount in the funding asset and the recipient accepts
TransferSucceeds(amount, accept) ==
    /\ getRemainingBalance >= amount
    /\ accept

\* the contract's balances after sending amount in the funding asset
BalanceAfter(amount) ==
    IF paymentToken = NATIVE THEN balance - amount ELSE balance

TokenBalanceAfter(amount) ==
    IF paymentToken = NATIVE THEN tokenBalance ELSE tokenBalance - amount

\* ---- releaseMilestonePayment ----
\* faulty variant: the paid flag is never written
MarkPaid_Skipped(ms, index) == ms

\* milestone.isPaid = true, written before the transfer
MarkPaid(ms, index) == [ms EXCEPT ![index].isPaid = TRUE]

\* faulty variant: the verified check is missing
releaseMilestonePaymentResult_NoVerifiedCheck(sender, index, accept) ==
    IF sender # client THEN "OnlyClient"
    ELSE IF ~isActive THEN "NotActive"
    ELSE IF index \notin Slots THEN "InvalidSlot"
    ELSE IF milestones[index].isPaid THEN "AlreadyPaid"
    ELSE IF ~TransferSucceeds(milestones[index].amount, accept) THEN "TransferFailed"
    ELSE "ok"

\* faulty variant: the already-paid check is missing
releaseMilestonePaymentResult_NoPaidCheck(sender, index, accept) ==
    IF sender # client THEN "OnlyClient"
    ELSE IF ~isActive THEN "NotActive"
    ELSE IF index \notin Slots THEN "InvalidSlot"
    ELSE IF ~milestones[index].isVerified THEN "NotVerified"
    ELSE IF ~TransferSucceeds(milestones[index].amount, accept) THEN "TransferFailed"
    ELSE "ok"

\* the first failing require of releaseMilestonePayment (modifiers first), or "ok"
releaseMilestonePaymentResult(sender, index, accept) ==
    IF sender # client THEN "OnlyClient"
    ELSE IF ~isActive THEN "NotActive"
    ELSE IF index \notin Slots THEN "InvalidSlot"
    ELSE IF ~milestones[index].isVerified THEN "NotVerified"
    ELSE IF milestones[index].isPaid THEN "AlreadyPaid"
    ELSE IF ~TransferSucceeds(milestones[index].amount, accept) THEN "TransferFailed"
    ELSE "ok"

ReleaseMilestonePayment(sender, index, accept) ==
    LET r == releaseMilestonePaymentResult(sender, index, accept) IN
    IF r = "ok"
    THEN LET amount == milestones[index].amount IN
         /\ last' = Call("releaseMilestonePayment", sender, index, 0, r, amount)
         /\ milestones' = MarkPaid(milestones, index)
         /\ balance' = BalanceAfter(amount)
         /\ tokenBalance' = TokenBalanceAfter(amount)
         /\ freelancerReceived' = freelancerReceived + amount
         /\ paidCalls' = [paidCalls EXCEPT ![index] = @ + 1]
         /\ UNCHANGED <<paymentToken, totalAmount, isActive, clientRefunded,
                        deposits, directs, verifiedCalls, cancels>>
    ELSE /\ last' = Call("releaseMilestonePayment", sender, index, 0, r, 0)
         /\ UNCHANGED <<ledgerVars, histVars>>

\* ---- cancelEscrow ----
\* faulty variant: the refund loop skips the verified slots instead of the paid ones
refundAmount_Unverified ==
    SumOver([i \in Slots |-> milestones[i].amount],
            {i \in Slots : ~milestones[i].isVerified})

\* the refund loop of cancelEscrow: the sum of the unpaid slots' amounts
refundAmount == SumAmounts(milestones, FALSE)

\* faulty variant: the onlyClient modifier is missing
cancelEscrowResult_AnyCaller(sender, accept) ==
    IF ~isActive THEN "NotActive"
    ELSE IF refundAmount > 0 /\ ~TransferSucceeds(refundAmount, accept) THEN "TransferFailed"
    ELSE "ok"

\* faulty variant: the active check is missing
cancelEscrowResult_NoActiveCheck(sender, accept) ==
    IF sender # client THEN "OnlyClient"
    ELSE IF refundAmount > 0 /\ ~TransferSucceeds(refundAmount, accept) THEN "TransferFailed"
    ELSE "ok"

\* the first failing require of cancelEscrow, or "ok"
cancelEscrowResult(sender, accept) ==
    IF sender # client THEN "OnlyClient"
    ELSE IF ~isActive THEN "NotActive"
    ELSE IF refundAmount > 0 /\ ~TransferSucceeds(refundAmount, accept) THEN "TransferFailed"
    ELSE "ok"

\* faulty variant: the refund is sent to the freelancer
CancelEscrow_PaysFreelancer(sender, accept) ==
    LET r == cancelEscrowResult(sender, accept) IN
    IF r = "ok"
    THEN /\ last' = Call("cancelEscrow", sender, NoIndex, 0, r, refundAmount)
         /\ balance' = BalanceAfter(refundAmount)
         /\ tokenBalance' = TokenBalanceAfter(refundAmount)
         /\ freelancerReceived' = freelancerReceived + refundAmount
         /\ isActive' = FALSE
         /\ cancels' = cancels + 1
         /\ UNCHANGED <<paymentToken, totalAmount, milestones, clientRefunded,
                        deposits, directs, verifiedCalls, paidCalls>>
    ELSE /\ last' = Call("cancelEscrow", sender, NoIndex, 0, r, 0)
         /\ UNCHANGED <<ledgerVars, histVars>>

CancelEscrow(sender, accept) ==
    LET r == cancelEscrowResult(sender, accept) IN
    IF r = "ok"
    THEN /\ last' = Call("cancelEscrow", sender, NoIndex, 0, r, refundAmount)
         /\ balance' = BalanceAfter(refundAmount)
         /\ tokenBalance' = TokenBalanceAfter(refundAmount)
         /\ clientRefunded' = clientRefunded + refundAmount
         /\ isActive' = FALSE
         /\ cancels' = cancels + 1
         /\ UNCHANGED <<paymentToken, totalAmount, milestones, freelancerReceived,
                        deposits, directs, verifiedCalls, paidCalls>>
    ELSE /\ last' = Call("cancelEscrow", sender, NoIndex, 0, r, 0)
         /\ UNCHANGED <<ledgerVars, histVars>>

\* ---- receive / fallback ----
\* a plain native transfer to the contract address: accepted from anyone
Receive(sender, value) ==
    /\ directs < MaxDirect
    /\ last' = Call("receive", sender, NoIndex, value, "ok", 0)
    /\ balance' = balance + value
    /\ directs' = directs + 1
    /\ UNCHANGED <<paymentToken, totalAmount, isActive, milestones,
                   tokenBalance, freelancerReceived, clientRefunded,
                   deposits, verifiedCalls, paidCalls, cancels>>

\* ---- inputs ----
Values  == {v \in {0, totalAmount - 1, totalAmount, totalAmount + 1} : v >= 0}
DirectValues == {1}
Indices == 0..Cardinality(Slots)      \* the last one is out of range

Next ==
    \/ \E sender \in Addresses : \E value \in Values :
         \E tokenOk \in BOOLEAN : DepositFunds(sender, value, tokenOk) /\ UNCHANGED coordVars
    \/ \E sender \in Addresses : \E index \in Indices :
         \E hash \in Hashes : VerifyMilestone(sender, index, hash) /\ UNCHANGED coordVars
    \/ \E sender \in Addresses : \E index \in Indices :
         \E accept \in BOOLEAN :
           ReleaseMilestonePayment(sender, index, accept) /\ UNCHANGED coordVars
    \/ \E sender \in Addresses : \E accept \in BOOLEAN :
         CancelEscrow(sender, accept) /\ UNCHANGED coordVars
    \/ \E sender \in Addresses : \E value \in DirectValues :
         Receive(sender, value) /\ UNCHANGED coordVars

Spec == Init /\ [][Next]_vars

\* ---- reading the record of the last call ----
WriteOps == {"depositFunds", "verifyMilestone", "releaseMilestonePayment", "cancelEscrow"}

\* the step now ending was a call of op (last' is written by every call)
Called(op) == last'.op = op

Succeeded(op) == last.op = op /\ last.result = "ok"

\* the call left the whole ledger as it was
LedgerUnchanged == UNCHANGED <<ledgerVars, histVars>>

\* C1: releaseMilestonePayment(i) succeeds only if an earlier verifyMilestone(i, *)
\* succeeded; a release on an unverified slot is rejected (with NotVerified
\* once the client calls it on an active ledger) and moves no funds.
C1_ReleaseOnlyAfterVerify ==
    /\ [](Succeeded("releaseMilestonePayment") => verifiedCalls[last.index] >= 1)
    /\ [][(Called("releaseMilestonePayment") /\ last'.index \in Slots
             /\ ~milestones[last'.index].isVerified)
          => /\ last'.result # "ok"
             /\ (last'.sender = client /\ isActive => last'.result = "NotVerified")
             /\ LedgerUnchanged]_vars

\* a release was rejected as NotVerified, and another release has succeeded
C1_Witness_Rejected ==
    /\ last.op = "releaseMilestonePayment"
    /\ last.result = "NotVerified"
    /\ \E i \in Slots : milestones[i].isPaid

\* what the contract has paid out for the slots, counted call by call
PaidOutBySlot ==
    SumOver([i \in Slots |-> paidCalls[i] * milestones[i].amount], Slots)

\* C2: in every reachable state and for every slot, the verified flag and the
\* paid flag each change only from false to true and at most once, a paid slot
\* is verified, and no operation resets a flag.
C2_FlagsMonotonic ==
    /\ [](\A i \in Slots :
            /\ milestones[i].isPaid => milestones[i].isVerified
            /\ verifiedCalls[i] = (IF milestones[i].isVerified THEN 1 ELSE 0)
            /\ paidCalls[i] = (IF milestones[i].isPaid THEN 1 ELSE 0))
    /\ [][\A i \in Slots :
            /\ milestones[i].isVerified => milestones'[i].isVerified
            /\ milestones[i].isPaid => milestones'[i].isPaid]_vars

\* a slot paid before a cancel is still verified and paid after the ledger was
\* funded again, next to a slot that was never verified
C2_Witness_FlagsKept ==
    /\ deposits = 2
    /\ isActive
    /\ \E i, j \in Slots : milestones[i].isPaid /\ ~milestones[j].isVerified

\* C3: releaseMilestonePayment(i) on an already paid slot moves no funds: over
\* any sequence of calls the freelancer receives each slot's amount at most
\* once, and the repeated call leaves ledger state and balances unchanged.
C3_ReleaseIdempotent ==
    /\ [](/\ \A i \in Slots : paidCalls[i] <= 1
          /\ freelancerReceived = PaidOutBySlot)
    /\ [][(Called("releaseMilestonePayment") /\ last'.index \in Slots
             /\ milestones[last'.index].isPaid)
          => /\ last'.result # "ok"
             /\ (last'.sender = client /\ isActive => last'.result = "AlreadyPaid")
             /\ LedgerUnchanged]_vars

\* the client repeated a release on a paid slot while the contract still held funds
C3_Witness_Repeated ==
    /\ last.op = "releaseMilestonePayment"
    /\ last.result = "AlreadyPaid"
    /\ getRemainingBalance >= milestones[last.index].amount

\* C4: conservation: after a successful fund of the total amount no sequence of
\* operations (cancel and later calls included) transfers more than the total
\* amount to the freelancer in aggregate; before any fund nothing is transferred.
C4_Conservation ==
    /\ freelancerReceived <= totalAmount
    /\ deposits = 0 => freelancerReceived = 0

\* the freelancer has received the whole total although the ledger was
\* cancelled, funded a second time and has taken a direct transfer
C4_Witness_AllPaid ==
    /\ freelancerReceived = totalAmount
    /\ deposits = 2
    /\ directs = 1
    /\ getRemainingBalance > 0

C6_ActiveOnce ==
    [][/\ (~isActive /\ isActive') => (Called("depositFunds") /\ deposits = 0)
       /\ (isActive /\ ~isActive') => Called("cancelEscrow")]_vars

\* C7: Cancelled is terminal: once cancelEscrow has succeeded, every later
\* depositFunds, verifyMilestone, releaseMilestonePayment and cancelEscrow call
\* is rejected and changes no slot flag, active flag or balance.
C7_CancelledTerminal ==
    [][(cancels >= 1 /\ last'.op \in WriteOps)
       => /\ last'.result # "ok"
          /\ LedgerUnchanged]_vars

\* C8: a second fund call on an Active ledger fails (AlreadyFunded for the
\* client) and leaves the active flag, all slots and the custodied balance unchanged.
C8_SecondFundRejected ==
    [][(Called("depositFunds") /\ isActive)
       => /\ last'.result # "ok"
          /\ (last'.sender = client => last'.result = "AlreadyFunded")
          /\ isActive'
          /\ LedgerUnchanged]_vars

\* the client sent the exact total a second time to a funded ledger
C8_Witness_AlreadyFunded ==
    /\ last.op = "depositFunds"
    /\ last.result = "AlreadyFunded"
    /\ last.value = totalAmount
    /\ isActive

\* C9: fund succeeds only when the transferred amount equals exactly the total
\* committed amount, and then takes exactly that amount into custody; any other
\* amount is rejected (AmountMismatch when the client funds an unfunded native
\* ledger) with the ledger still not active and no funds taken into custody.
C9_ExactAmount ==
    /\ [](Succeeded("depositFunds") => last.moved = totalAmount)
    /\ [][Called("depositFunds")
          => /\ last'.result = "ok"
                => /\ last'.value = (IF paymentToken = NATIVE THEN totalAmount ELSE 0)
                   /\ getRemainingBalance' = getRemainingBalance + totalAmount
             /\ last'.value # (IF paymentToken = NATIVE THEN totalAmount ELSE 0)
                => /\ last'.result # "ok"
                   /\ (last'.sender = client /\ ~isActive /\ paymentToken = NATIVE
                         => last'.result = "AmountMismatch")
                   /\ isActive' = isActive
                   /\ LedgerUnchanged]_vars

\* the client overpaid an unfunded ledger by one unit and was rejected
C9_Witness_Mismatch ==
    /\ last.op = "depositFunds"
    /\ last.result = "AmountMismatch"
    /\ last.value = totalAmount + 1
    /\ ~isActive
    /\ deposits = 0

\* C10: every ledger write operation invoked by an address other than the
\* client is rejected and leaves the whole ledger state unchanged.
C10_OnlyClient ==
    [][(last'.op \in WriteOps /\ last'.sender # client)
       => /\ last'.result = "OnlyClient"
          /\ LedgerUnchanged]_vars

\* the freelancer tried to release a verified, unpaid slot of an active ledger
C10_Witness_FreelancerRelease ==
    /\ last.op = "releaseMilestonePayment"
    /\ last.sender = freelancer
    /\ last.result = "OnlyClient"
    /\ isActive
    /\ last.index \in Slots
    /\ milestones[last.index].isVerified
    /\ ~milestones[last.index].isPaid
    /\ getRemainingBalance >= milestones[last.index].amount

\* C11: verifyMilestone(i, h) succeeds only when the ledger is Active, i is in
\* range and slot i is neither paid nor verified; otherwise it is rejected
\* (for the client: NotActive, InvalidSlot, AlreadyPaid, AlreadyVerified, in
\* that order) and neither the slot's flags nor its stored evidence hash change.
C11_VerifyPreconditions ==
    [][Called("verifyMilestone")
       => /\ last'.result = "ok"
             => /\ isActive
                /\ last'.index \in Slots
                /\ ~milestones[last'.index].isPaid
                /\ ~milestones[last'.index].isVerified
                /\ milestones'[last'.index].isVerified
                /\ milestones'[last'.index].verificationHash \in Hashes
          /\ last'.result # "ok"
             => /\ milestones' = milestones
                /\ LedgerUnchanged
          /\ (~isActive \/ last'.index \notin Slots) => last'.result # "ok"
          /\ (last'.index \in Slots
                /\ (milestones[last'.index].isPaid \/ milestones[last'.index].isVerified))
             => last'.result # "ok"
          /\ last'.sender = client
             => last'.result =
                  (IF ~isActive THEN "NotActive"
                   ELSE IF last'.index \notin Slots THEN "InvalidSlot"
                   ELSE IF milestones[last'.index].isPaid THEN "AlreadyPaid"
                   ELSE IF milestones[last'.index].isVerified THEN "AlreadyVerified"
                   ELSE "ok")]_vars

\* the client verified again a slot that holds an evidence hash and is not yet paid
C11_Witness_AlreadyVerified ==
    /\ last.op = "verifyMilestone"
    /\ last.result = "AlreadyVerified"
    /\ milestones[last.index].verificationHash \in Hashes
    /\ ~milestones[last.index].isPaid

\* C12: cancelEscrow is rejected (NotActive for the client) when the ledger is
\* Unfunded or already Cancelled, and then transfers nothing and changes no state.
C12_CancelNotActive ==
    [][(Called("cancelEscrow") /\ ~isActive)
       => /\ last'.result # "ok"
          /\ (last'.sender = client => last'.result = "NotActive")
          /\ last'.moved = 0
          /\ LedgerUnchanged]_vars

\* the client cancelled a cancelled ledger that still holds funds
C12_Witness_CancelTwice ==
    /\ last.op = "cancelEscrow"
    /\ last.result = "NotActive"
    /\ cancels >= 1
    /\ getRemainingBalance > 0

\* C13: releaseMilestonePayment is the only operation that moves custodied
\* funds to the freelancer: depositFunds, verifyMilestone, cancelEscrow (and a
\* direct transfer) leave the freelancer's received total unchanged.
C13_OnlyReleasePays ==
    [][/\ freelancerReceived' # freelancerReceived
          => (Called("releaseMilestonePayment") /\ last'.result = "ok")
       /\ last'.op \in {"depositFunds", "verifyMilestone", "cancelEscrow", "receive"}
          => freelancerReceived' = freelancerReceived]_vars

\* a cancel with a positive refund succeeded after the freelancer had been paid
C13_Witness_CancelAfterPay ==
    /\ Succeeded("cancelEscrow")
    /\ last.moved > 0
    /\ freelancerReceived > 0

\* ======================================================================
\* The application: CreateProject and the ProjectDetails handlers driving
\* one ledger (native asset) and the off-chain store.  Every await of a
\* handler is one step, so the sessions interleave at the awaits; a page can
\* be closed at any await (Crash).
\* ======================================================================
Lifecycle == <<"pending", "in_progress", "submitted", "verified", "paid">>

\* the position of a milestone status in the lifecycle
Rank(st) == CHOOSE k \in 1..Len(Lifecycle) : Lifecycle[k] = st

VerificationTypes == {"github", "figma", "manual"}

\* what one call of an oracle function gives the handler: "throw" (fetch or
\* response.json() throws), "config" (status 400: a parameter is missing),
\* "crash" (status 500: the function's own request failed), "error" (the
\* upstream source answered non-ok: status 200, verified:false and an
\* error), "none" (no item counted), "below" (items counted, under the
\* threshold), "enough" (verified:true)
OracleOutcomes == {"throw", "config", "crash", "error", "none", "below", "enough"}

\* milestone.verification_config?.verificationHash || '0x00..00'
verificationHash(index) == "h1"

\* CreateProject.handleSubmit, after deployment: the project row and the milestone rows
ProjectInserted ==
    /\ status = [i \in Slots |-> "pending"]
    /\ projectStatus = "active"
    /\ transactions = [i \in Slots |-> 0]
    /\ verificationLogs = [i \in Slots |-> [success |-> 0, failed |-> 0]]
    /\ \E t \in VerificationTypes : vtype = [i \in Slots |-> t]
    /\ creation = "inserted"
    /\ SessionsInit

CoordInit ==
    /\ LedgerInit({NATIVE})
    /\ ProjectInserted
    /\ ToolsIdle

\* a step of the application that sends no transaction
LedgerUntouched == UNCHANGED <<ledgerVars, histVars, last, sentVars, toolVars>>

\* the handler of session s ends: finally { setLoading(false) }
Finish(s, how) ==
    /\ pc' = [pc EXCEPT ![s] = "idle"]
    /\ outcome' = [outcome EXCEPT ![s] = how]

Goto(s, label) ==
    /\ pc' = [pc EXCEPT ![s] = label]
    /\ UNCHANGED outcome

\* CreateProject.handleSubmit: the first inserted milestone is set in_progress
StartFirstMilestone ==
    /\ creation = "inserted"
    /\ creation' = "done"
    /\ status' = [status EXCEPT ![0] = "in_progress"]
    /\ UNCHANGED <<projectStatus, transactions, verificationLogs, vtype, sessVars>>
    /\ LedgerUntouched

\* loadMilestones on mount or refresh of the page
LoadMilestones(s) ==
    /\ pc[s] = "idle"
    /\ view' = [view EXCEPT ![s] = status]
    /\ UNCHANGED <<storeVars, pc, cur, verdict, response, outcome, attempts>>
    /\ LedgerUntouched

\* fundEscrow / depositToEscrow from the client's wallet
FundEscrow ==
    /\ deposits = 0
    /\ DepositFunds(client, totalAmount, TRUE)
    /\ UNCHANGED coordVars

\* ---- handleSubmitMilestone ----
HandleSubmitMilestone(s, index) ==
    /\ s \in FreelancerSessions
    /\ pc[s] = "idle"
    /\ view[s][index] = "in_progress"
    /\ status' = [status EXCEPT ![index] = "submitted"]
    /\ cur' = [cur EXCEPT ![s] = index]
    /\ pc' = [pc EXCEPT ![s] = "submit_reload"]
    /\ outcome' = [outcome EXCEPT ![s] = "none"]
    /\ UNCHANGED <<projectStatus, transactions, verificationLogs, vtype, creation,
                   view, verdict, response, attempts>>
    /\ LedgerUntouched

SubmitReload(s) ==
    /\ pc[s] = "submit_reload"
    /\ view' = [view EXCEPT ![s] = status]
    /\ Finish(s, "ok")
    /\ UNCHANGED <<storeVars, cur, verdict, response, attempts>>
    /\ LedgerUntouched

\* ---- handleVerifyMilestone ----
\* the github-oracle function updates the project row when it is given a
\* projectId and found a latest commit: status 'active' once commitCount > 0
OracleProjectStatus(t, oc) ==
    IF t = "github" /\ oc \in {"below", "enough"} THEN "active" ELSE projectStatus

HandleVerifyMilestone(s, index, oc) ==
    /\ s \in ClientSessions
    /\ pc[s] = "idle"
    /\ view[s][index] = "submitted"
    /\ attempts < MaxAttempts
    /\ attempts' = attempts + 1
    /\ cur' = [cur EXCEPT ![s] = index]
    /\ IF vtype[index] = "manual"
       THEN /\ pc' = [pc EXCEPT ![s] = "verify_update"]
            /\ outcome' = [outcome EXCEPT ![s] = "none"]
            /\ verdict' = [verdict EXCEPT ![s] = TRUE]
            /\ UNCHANGED <<response, projectStatus>>
       ELSE IF oc = "throw"
       THEN /\ Finish(s, "error")
            /\ UNCHANGED <<verdict, response, projectStatus>>
       ELSE /\ pc' = [pc EXCEPT ![s] = "verify_log"]
            /\ outcome' = [outcome EXCEPT ![s] = "none"]
            /\ verdict' = [verdict EXCEPT ![s] = (oc = "enough")]
            /\ response' = [response EXCEPT ![s] = oc]
            /\ projectStatus' = OracleProjectStatus(vtype[index], oc)
    /\ UNCHANGED <<status, transactions, verificationLogs, vtype, creation, view>>
    /\ LedgerUntouched

\* supabase.from('verification_logs').insert(...)
VerifyLog(s) ==
    /\ pc[s] = "verify_log"
    /\ verificationLogs' =
         [verificationLogs EXCEPT ![cur[s]] =
            IF verdict[s] THEN [@ EXCEPT !.success = @ + 1]
                          ELSE [@ EXCEPT !.failed = @ + 1]]
    /\ Goto(s, IF verdict[s] THEN "verify_update" ELSE "verify_reload")
    /\ UNCHANGED <<status, projectStatus, transactions, vtype, creation,
                   view, cur, verdict, response, attempts>>
    /\ LedgerUntouched

\* supabase.from('milestones').update({ status: 'verified', .. })
VerifyUpdate(s) ==
    /\ pc[s] = "verify_update"
    /\ status' = [status EXCEPT ![cur[s]] = "verified"]
    /\ Goto(s, "verify_reload")
    /\ UNCHANGED <<projectStatus, transactions, verificationLogs, vtype, creation,
                   view, cur, verdict, response, attempts>>
    /\ LedgerUntouched

VerifyReload(s) ==
    /\ pc[s] = "verify_reload"
    /\ view' = [view EXCEPT ![s] = status]
    /\ response' = [response EXCEPT ![s] = "nothing"]
    /\ Finish(s, "ok")
    /\ UNCHANGED <<storeVars, cur, verdict, attempts>>
    /\ LedgerUntouched

\* ---- handlePayMilestone / verifyAndPayMilestone ----
\* the checks of verifyAndPayMilestone before it sends a transaction
HandlePayMilestone(s, index, wallet) ==
    /\ s \in ClientSessions
    /\ pc[s] = "idle"
    /\ view[s][index] = "verified"
    /\ attempts < MaxAttempts
    /\ attempts' = attempts + 1
    /\ cur' = [cur EXCEPT ![s] = index]
    /\ IF wallet # client \/ balance = 0
       THEN Finish(s, "error")
       ELSE /\ pc' = [pc EXCEPT ![s] = "pay_verify"]
            /\ outcome' = [outcome EXCEPT ![s] = "none"]
    /\ UNCHANGED <<storeVars, view, verdict, response>>
    /\ LedgerUntouched

\* where verifyAndPayMilestone goes on after verifyTx.wait(): a revert throws
AfterVerify(result) == IF result = "ok" THEN "pay_release" ELSE "error"

\* faulty variant: a failed release is not noticed
AfterRelease_Ignored(result) == "pay_record"

\* where verifyAndPayMilestone goes on after payTx.wait(): a revert throws
AfterRelease(result) == IF result = "ok" THEN "pay_record" ELSE "error"

\* the handler of session s goes on at label, or ends in the catch block
Continue(s, label) ==
    IF label = "error" THEN Finish(s, "error") ELSE Goto(s, label)

\* contract.verifyMilestone(milestoneIndex, verificationHash) and its wait()
PayVerify(s) ==
    /\ pc[s] = "pay_verify"
    /\ VerifyMilestone(client, cur[s], verificationHash(cur[s]))
    /\ Continue(s, AfterVerify(verifyMilestoneResult(client, cur[s])))
    /\ passed' = [passed EXCEPT ![cur[s]] = @ \cup {verificationHash(cur[s])}]
    /\ UNCHANGED <<storeVars, view, cur, verdict, response, attempts, mempool, helper,
                   toolVars>>

\* contract.releaseMilestonePayment(milestoneIndex) and its wait()
PayRelease(s, accept) ==
    /\ pc[s] = "pay_release"
    /\ ReleaseMilestonePayment(client, cur[s], accept)
    /\ Continue(s, AfterRelease(releaseMilestonePaymentResult(client, cur[s], accept)))
    /\ UNCHANGED <<storeVars, view, cur, verdict, response, attempts, sentVars,
                   toolVars>>

\* supabase.from('transactions').insert({ transaction_type: 'milestone_payment', .. })
PayRecord(s) ==
    /\ pc[s] = "pay_record"
    /\ transactions' = [transactions EXCEPT ![cur[s]] = @ + 1]
    /\ Goto(s, "pay_update")
    /\ UNCHANGED <<status, projectStatus, verificationLogs, vtype, creation,
                   view, cur, verdict, response, attempts>>
    /\ LedgerUntouched

\* supabase.from('milestones').update({ status: 'paid', .. })
PayUpdate(s) ==
    /\ pc[s] = "pay_update"
    /\ status' = [status EXCEPT ![cur[s]] = "paid"]
    /\ Goto(s, "pay_reload")
    /\ UNCHANGED <<projectStatus, transactions, verificationLogs, vtype, creation,
                   view, cur, verdict, response, attempts>>
    /\ LedgerUntouched

PayReload(s) ==
    /\ pc[s] = "pay_reload"
    /\ view' = [view EXCEPT ![s] = status]
    /\ Goto(s, "pay_check")
    /\ UNCHANGED <<storeVars, cur, verdict, response, attempts>>
    /\ LedgerUntouched

\* allMilestones?.every(m => m.status === 'paid')
allPaid == \A i \in Slots : status[i] = "paid"

PayCheck(s) ==
    /\ pc[s] = "pay_check"
    /\ IF allPaid THEN Goto(s, "pay_complete") ELSE Finish(s, "ok")
    /\ UNCHANGED <<storeVars, view, cur, verdict, response, attempts>>
    /\ LedgerUntouched

\* supabase.from('projects').update({ status: 'completed' })
PayComplete(s) ==
    /\ pc[s] = "pay_complete"
    /\ projectStatus' = "completed"
    /\ Finish(s, "ok")
    /\ UNCHANGED <<status, transactions, verificationLogs, vtype, creation,
                   view, cur, verdict, response, attempts>>
    /\ LedgerUntouched

\* the page is closed (or the browser dies) while a handler waits: the
\* component state is gone, a page opened again starts without milestones
Crash(s) ==
    /\ pc[s] # "idle"
    /\ Finish(s, "crashed")
    /\ view' = [view EXCEPT ![s] = [i \in Slots |-> "none"]]
    /\ response' = [response EXCEPT ![s] = "nothing"]
    /\ UNCHANGED <<storeVars, cur, verdict, attempts>>
    /\ LedgerUntouched

CoordNext ==
    \/ StartFirstMilestone
    \/ FundEscrow
    \/ \E s \in Sessions : LoadMilestones(s)
    \/ \E s \in Sessions : \E index \in Slots : HandleSubmitMilestone(s, index)
    \/ \E s \in Sessions : SubmitReload(s)
    \/ \E s \in Sessions : \E index \in Slots :
         \E oc \in OracleOutcomes : HandleVerifyMilestone(s, index, oc)
    \/ \E s \in Sessions : VerifyLog(s)
    \/ \E s \in Sessions : VerifyUpdate(s)
    \/ \E s \in Sessions : VerifyReload(s)
    \/ \E s \in Sessions : \E index \in Slots :
         \E wallet \in Addresses : HandlePayMilestone(s, index, wallet)
    \/ \E s \in Sessions : PayVerify(s)
    \/ \E s \in Sessions : \E accept \in BOOLEAN : PayRelease(s, accept)
    \/ \E s \in Sessions : PayRecord(s)
    \/ \E s \in Sessions : PayUpdate(s)
    \/ \E s \in Sessions : PayReload(s)
    \/ \E s \in Sessions : PayCheck(s)
    \/ \E s \in Sessions : PayComplete(s)
    \/ \E s \in Sessions : Crash(s)

CoordSpec == CoordInit /\ [][CoordNext]_vars

\* ---- the application driven without failures ----
\* every user action is taken with its good input (the oracle finds enough
\* commits, the connected wallet is the client's, the freelancer's account
\* accepts the payment) and no page is closed while a handler waits
DriveNext ==
    \/ StartFirstMilestone
    \/ FundEscrow
    \/ \E s \in Sessions : LoadMilestones(s)
    \/ \E s \in Sessions : \E index \in Slots : HandleSubmitMilestone(s, index)
    \/ \E s \in Sessions : SubmitReload(s)
    \/ \E s \in Sessions : \E index \in Slots : HandleVerifyMilestone(s, index, "enough")
    \/ \E s \in Sessions : VerifyLog(s)
    \/ \E s \in Sessions : VerifyUpdate(s)
    \/ \E s \in Sessions : VerifyReload(s)
    \/ \E s \in Sessions : \E index \in Slots : HandlePayMilestone(s, index, client)
    \/ \E s \in Sessions : PayVerify(s)
    \/ \E s \in Sessions : PayRelease(s, TRUE)
    \/ \E s \in Sessions : PayRecord(s)
    \/ \E s \in Sessions : PayUpdate(s)
    \/ \E s \in Sessions : PayReload(s)
    \/ \E s \in Sessions : PayCheck(s)
    \/ \E s \in Sessions : PayComplete(s)

\* every step that can be taken is eventually taken: users keep clicking the
\* buttons they are shown and every awaited call returns
DriveFairness ==
    /\ WF_vars(StartFirstMilestone)
    /\ WF_vars(FundEscrow)
    /\ \A s \in Sessions :
         /\ WF_vars(LoadMilestones(s))
         /\ WF_vars(\E index \in Slots : HandleSubmitMilestone(s, index))
         /\ WF_vars(SubmitReload(s))
         /\ WF_vars(\E index \in Slots : HandleVerifyMilestone(s, index, "enough"))
         /\ WF_vars(VerifyLog(s))
         /\ WF_vars(VerifyUpdate(s))
         /\ WF_vars(VerifyReload(s))
         /\ WF_vars(\E index \in Slots : HandlePayMilestone(s, index, client))
         /\ WF_vars(PayVerify(s))
         /\ WF_vars(PayRelease(s, TRUE))
         /\ WF_vars(PayRecord(s))
         /\ WF_vars(PayUpdate(s))
         /\ WF_vars(PayReload(s))
         /\ WF_vars(PayCheck(s))
         /\ WF_vars(PayComplete(s))

FairCoordSpec == CoordInit /\ [][DriveNext]_vars /\ DriveFairness

\* ---- claims about the handlers ----
\* session s runs the pay flow
Paying(s) == pc[s] \in {"pay_verify", "pay_release", "pay_record",
                        "pay_update", "pay_reload", "pay_check", "pay_complete"}

\* session s takes a step of its handler that is not the page being closed
Steps(s) == pc'[s] # pc[s] /\ outcome'[s] # "crashed"

\* C14: the off-chain status of a milestone is verified (or later) only if
\* the ledger slot of the same index is verified on the ledger
C14_VerifiedLag ==
    \A i \in Slots : status[i] \in {"verified", "paid"} => milestones[i].isVerified

\* C15: a milestone is marked paid off-chain, and a payment transaction
\* record exists for it, only when the ledger's release of that slot
\* succeeded; a failed release leaves the handler in its catch block
C15_PaidLag ==
    /\ [](\A i \in Slots :
            (status[i] = "paid" \/ transactions[i] > 0) => milestones[i].isPaid)
    /\ [][\A s \in Sessions :
            (pc[s] = "pay_release" /\ Steps(s) /\ last'.result # "ok")
              => /\ outcome'[s] = "error"
                 /\ status' = status
                 /\ transactions' = transactions]_vars

\* a release failed in a session, whose milestone is neither marked paid nor
\* has a transaction record
C15_Witness_ReleaseFailed ==
    \E s \in Sessions :
        /\ outcome[s] = "error"
        /\ last.op = "releaseMilestonePayment"
        /\ last.result # "ok"
        /\ status[cur[s]] # "paid"
        /\ transactions[cur[s]] = 0

\* C16: a pay attempt whose verify call is rejected with AlreadyVerified
\* goes on to the release call
C16_AlreadyVerifiedContinues ==
    [][\A s \in Sessions :
         (pc[s] = "pay_verify" /\ Steps(s) /\ last'.result = "AlreadyVerified")
           => pc'[s] = "pay_release"]_vars

\* C17: a pay attempt on a slot the ledger has already paid, with the
\* off-chain milestone still verified, does not end as an error (it goes on
\* to mark the milestone paid)
C17_AlreadyPaidContinues ==
    [][\A s \in Sessions :
         (/\ pc[s] = "pay_verify"
          /\ milestones[cur[s]].isPaid
          /\ status[cur[s]] = "verified"
          /\ Steps(s))
           => outcome'[s] # "error"]_vars

\* C18: under fair scheduling of the user actions every milestone is
\* eventually paid and the project completed (or the handler runs that a
\* behaviour of this model may take are used up)
C18_NoMilestoneStuck ==
    <>((allPaid /\ projectStatus = "completed") \/ attempts = MaxAttempts)

\* C19: with two pay attempts for the same milestone in flight, the slot is
\* verified and paid at most once, the freelancer receives its amount at
\* most once, there is at most one transaction record, and the attempt that
\* the ledger rejects as already done is not surfaced as an error
C19_ConcurrentAttempts ==
    /\ [](\A i \in Slots :
            /\ verifiedCalls[i] <= 1
            /\ paidCalls[i] <= 1
            /\ transactions[i] <= 1)
    /\ [](freelancerReceived = SumAmounts(milestones, TRUE))
    /\ [][\A s, t \in ClientSessions :
            (/\ s # t
             /\ Paying(s) /\ Paying(t)
             /\ cur[s] = cur[t]
             /\ Steps(s)
             /\ last'.result \in {"AlreadyVerified", "AlreadyPaid"})
              => outcome'[s] # "error"]_vars

\* C20: no store write moves the status of a milestone backward in the
\* order pending < in_progress < submitted < verified < paid
C20_StatusMonotonic ==
    [][\A i \in Slots : Rank(status'[i]) >= Rank(status[i])]_vars

\* ---- payMilestoneDirectly (helper run from the browser console) ----
\* the values of Date.now() at the runs of the helper
Times == {1, 2}

\* `verified-${Date.now()}`, hex-encoded and padded to 64 digits: a
\* different text for every timestamp
TimestampText == <<"verified-1", "verified-2">>
directVerificationHash(now) == TimestampText[now]

verifyTx(index, hash) == [op |-> "verifyMilestone", index |-> index, hash |-> hash]
releaseTx(index) == [op |-> "releaseMilestonePayment", index |-> index, hash |-> ""]

\* nothing of the application's store or sessions changes
AppUntouched ==
    UNCHANGED <<storeVars, view, pc, cur, verdict, response, outcome, toolVars>>

\* the helper builds the hash and sends the verifyMilestone transaction
PayMilestoneDirectly(index, now) ==
    /\ helper.stage = "idle"
    /\ attempts < MaxAttempts
    /\ attempts' = attempts + 1
    /\ mempool' = Append(mempool, verifyTx(index, directVerificationHash(now)))
    /\ passed' = [passed EXCEPT ![index] = @ \cup {directVerificationHash(now)}]
    /\ helper' = [stage |-> "waiting", index |-> index]
    /\ AppUntouched
    /\ UNCHANGED <<ledgerVars, histVars, last>>

\* setTimeout(resolve, 10000) fires: the helper sends releaseMilestonePayment
DirectRelease ==
    /\ helper.stage = "waiting"
    /\ mempool' = Append(mempool, releaseTx(helper.index))
    /\ helper' = [stage |-> "idle", index |-> NoIndex]
    /\ AppUntouched
    /\ UNCHANGED <<ledgerVars, histVars, last, passed, attempts>>

\* the network mines the oldest transaction of the client's account
Mine(accept) ==
    /\ mempool # <<>>
    /\ LET tx == Head(mempool) IN
         IF tx.op = "verifyMilestone"
         THEN VerifyMilestone(client, tx.index, tx.hash)
         ELSE ReleaseMilestonePayment(client, tx.index, accept)
    /\ mempool' = Tail(mempool)
    /\ AppUntouched
    /\ UNCHANGED <<passed, helper, attempts>>

\* the application driven without failures, and the helper beside it
ConsoleNext ==
    \/ DriveNext
    \/ \E index \in Slots : \E now \in Times : PayMilestoneDirectly(index, now)
    \/ DirectRelease
    \/ \E accept \in BOOLEAN : Mine(accept)

ConsoleSpec == CoordInit /\ [][ConsoleNext]_vars

\* ---- claims about confirmations, oracle failures and records ----
\* a release of slot i is sent to the ledger in this step
SubmitsRelease(i) ==
    \/ \E s \in Sessions : pc[s] = "pay_release" /\ cur[s] = i /\ Steps(s)
    \/ mempool' = Append(mempool, releaseTx(i))

\* C21: a release of slot i is sent only when the ledger has executed the
\* verify of slot i, and a milestone is marked paid off-chain only when the
\* ledger has executed its release
C21_ConfirmationBeforeNext ==
    [][/\ \A i \in Slots : SubmitsRelease(i) => milestones[i].isVerified
       /\ \A i \in Slots :
            (status'[i] = "paid" /\ status[i] # "paid") => milestones[i].isPaid]_vars

\* session s inserts the verification record of the response it holds
LogsResponse(s, kinds) ==
    pc[s] = "verify_log" /\ response[s] \in kinds /\ Steps(s)

\* session s receives an oracle response of one of the kinds
Receives(s, kinds) ==
    pc[s] = "idle" /\ pc'[s] = "verify_log" /\ response'[s] \in kinds

\* C22: when the oracle could not determine a verdict (the upstream source
\* answered non-ok, or the oracle call failed) no verification record is
\* written for the attempt
C22_NoRecordWithoutVerdict ==
    [][\A s \in Sessions :
         LogsResponse(s, {"error", "crash"}) => verificationLogs' = verificationLogs]_vars

\* session s starts a verification whose oracle call throws
VerifyThrows(s) ==
    /\ pc[s] = "idle" /\ pc'[s] = "idle"
    /\ attempts' = attempts + 1
    /\ outcome'[s] = "error"
    /\ view[s][cur'[s]] = "submitted"

\* C23: a transport failure of the oracle call leaves the store, the
\* verification records and the ledger as they were
C23_TransportFailureNoOp ==
    [][\A s \in Sessions :
         /\ VerifyThrows(s) =>
              UNCHANGED <<storeVars, ledgerVars, histVars, last, sentVars>>
         /\ (\/ Receives(s, {"crash"})
             \/ LogsResponse(s, {"crash"})) =>
              UNCHANGED <<storeVars, ledgerVars, histVars, last, sentVars>>]_vars

\* C24: a configuration error is rejected before the external source is
\* asked, and no verification record is written for the attempt
C24_ConfigErrorNoRecord ==
    [][\A s \in Sessions :
         /\ Receives(s, {"config"}) => projectStatus' = projectStatus
         /\ LogsResponse(s, {"config"}) => verificationLogs' = verificationLogs]_vars

\* the verification records of milestone i
LogCount(i) == verificationLogs[i].success + verificationLogs[i].failed

\* C25: every verification attempt with a verdict appends exactly one
\* verification record, whatever the oracle variant (a milestone is updated
\* to verified only by an attempt that has inserted its record), and no
\* record is ever removed
C25_OneRecordPerVerdict ==
    [][/\ \A s \in Sessions :
            (pc'[s] = "verify_update" /\ pc[s] # "verify_update") => pc[s] = "verify_log"
       /\ \A s \in Sessions :
            (pc[s] = "verify_log" /\ Steps(s)) => LogCount(cur[s])' = LogCount(cur[s]) + 1
       /\ \A i \in Slots :
            /\ verificationLogs'[i].success >= verificationLogs[i].success
            /\ verificationLogs'[i].failed >= verificationLogs[i].failed]_vars

\* the oracle determined a verdict and it is negative
Negative == {"none", "below"}

\* C26: a negative verdict is recorded with outcome success, never failed,
\* and the milestone status stays as it is
C26_NegativeRecordedAsSuccess ==
    [][\A s \in Sessions :
         LogsResponse(s, Negative) =>
            /\ verificationLogs'[cur[s]].failed = verificationLogs[cur[s]].failed
            /\ verificationLogs'[cur[s]].success = verificationLogs[cur[s]].success + 1
            /\ status' = status]_vars

\* C27: an attempt with a negative verdict does not advance the milestone,
\* makes no ledger call and changes no other business state of the store
C27_NegativeChangesNothing ==
    [][\A s \in Sessions :
         (Receives(s, Negative) \/ LogsResponse(s, Negative)) =>
            /\ status' = status
            /\ projectStatus' = projectStatus
            /\ transactions' = transactions
            /\ pc'[s] # "verify_update"
            /\ UNCHANGED <<ledgerVars, histVars, last, sentVars>>]_vars

\* C28: a confirmed release is followed by the transaction record and the
\* paid update, the project is completed when the check finds every
\* milestone paid, and a completed project has every milestone paid
C28_CompletedIffAllPaid ==
    /\ [](projectStatus = "completed" => allPaid)
    /\ [][\A s \in Sessions :
            /\ (pc[s] = "pay_release" /\ Steps(s) /\ last'.result = "ok")
                 => pc'[s] = "pay_record"
            /\ (pc[s] = "pay_check" /\ Steps(s) /\ allPaid)
                 => pc'[s] = "pay_complete"]_vars

\* C29: the project is active off-chain only if the ledger is active
C29_ActiveOnlyWhenFunded ==
    projectStatus = "active" => isActive

\* C30: every run of a flow passes the same evidence hash for a milestone
\* to the ledger's verify (the evidence of a milestone does not change in
\* this model)
C30_HashDeterministic ==
    \A i \in Slots : Cardinality(passed[i]) <= 1

\* C32: the total committed amount equals the sum of the slot amounts in
\* every reachable state: every slot amount is positive, and no operation
\* changes the total, adds, removes or reorders a slot, or changes a slot's
\* amount
C32_TotalIsSum ==
    /\ [](/\ totalAmount = SumOver([i \in Slots |-> milestones[i].amount], Slots)
          /\ \A i \in Slots : milestones[i].amount > 0)
    /\ [][/\ totalAmount' = totalAmount
          /\ DOMAIN milestones' = DOMAIN milestones
          /\ \A i \in Slots : milestones'[i].amount = milestones[i].amount]_vars

\* a ledger of two slots after a deposit, a release and a cancel: the first
\* slot is paid, the ledger is cancelled, the total is still the sum of both
C32_Witness_AfterOperations ==
    /\ Cardinality(Slots) = 2
    /\ deposits >= 1
    /\ cancels >= 1
    /\ \E i \in Slots : milestones[i].isPaid
    /\ totalAmount = milestones[0].amount + milestones[1].amount

\* what the ledger holds in the funding asset without the direct transfers
\* it received (each one carries the one value of DirectValues)
Custodied ==
    IF paymentToken = NATIVE
    THEN balance - directs * (CHOOSE v \in DirectValues : TRUE)
    ELSE tokenBalance

\* C33: ignoring direct transfers, the custodied balance equals the sum of the
\* unpaid slots' amounts while the ledger is active and is zero while it is
\* not active; a successful release of slot i lowers the balance by exactly
\* slot i's amount
C33_CustodyBalance ==
    /\ [](Custodied = (IF isActive THEN SumAmounts(milestones, FALSE) ELSE 0))
    /\ [][(Called("releaseMilestonePayment") /\ last'.result = "ok")
          => getRemainingBalance' = getRemainingBalance - milestones[last'.index].amount]_vars

\* the calls that move funds out of the ledger or prepare it
OutwardOps == {"verifyMilestone", "releaseMilestonePayment", "cancelEscrow"}

C37_CompletedStable ==
    [][projectStatus = "completed" => projectStatus' = "completed"]_vars

\* ---- the oracle functions (github-oracle, figma-oracle) ----
MaxItems == 2      \* most commits or versions the external source returns

\* the timestamps of the requests and the items: ISO texts in the order of
\* time, and beside them a text that is no date
Dates == <<"2025-01-01T00:00:00Z", "2025-01-02T00:00:00Z", "2025-01-03T00:00:00Z">>
DateTexts == {Dates[k] : k \in DOMAIN Dates}
NaN == -1

\* new Date(text).getTime(): the position in time, NaN for an Invalid Date
DateOf(text) ==
    IF text \in DateTexts THEN CHOOSE k \in DOMAIN Dates : Dates[k] = text ELSE NaN

\* a >= b on two Date objects: false as soon as one is an Invalid Date
DateGE(a, b) == a # NaN /\ b # NaN /\ a >= b

\* `if (since)`: undefined and the empty text are falsy
Undefined == "undefined"
Truthy(text) == text \notin {Undefined, ""}

\* a destructuring default: `{ minCommits = 1 }` takes 1 for a missing field
Default(field, value) == IF field.given THEN field.value ELSE value

Reply(code, verified, count) ==
    [status |-> code, verified |-> verified, count |-> count]

\* faulty variant: the count has to exceed the threshold
githubOracle_Strict(req) ==
    IF ~req.params THEN Reply(400, FALSE, 0)
    ELSE IF req.upstream = "throw" THEN Reply(500, FALSE, 0)
    ELSE IF req.upstream = "error" THEN Reply(200, FALSE, 0)
    ELSE LET minCommits == Default(req.minimum, 1)
             commits == req.items
         IN Reply(200, Len(commits) > minCommits, Len(commits))

\* github-oracle: the commits are those the API returned for the branch and
\* the since parameter of the url
githubOracle(req) ==
    IF ~req.params THEN Reply(400, FALSE, 0)
    ELSE IF req.upstream = "throw" THEN Reply(500, FALSE, 0)
    ELSE IF req.upstream = "error" THEN Reply(200, FALSE, 0)
    ELSE LET minCommits == Default(req.minimum, 1)
             commits == req.items
         IN Reply(200, Len(commits) >= minCommits, Len(commits))

\* figma-oracle: the versions the API returned, filtered by created_at
figmaOracle(req) ==
    IF ~req.params THEN Reply(400, FALSE, 0)
    ELSE IF req.upstream = "throw" THEN Reply(500, FALSE, 0)
    ELSE IF req.upstream = "error" THEN Reply(200, FALSE, 0)
    ELSE LET minVersions == Default(req.minimum, 1)
             sinceDate == DateOf(req.since)
             AtOrAfter(v) == DateGE(DateOf(v), sinceDate)
             versions == IF Truthy(req.since)
                         THEN SelectSeq(req.items, AtOrAfter)
                         ELSE req.items
         IN Reply(200, Len(versions) >= minVersions, Len(versions))

\* the request bodies and the answers of the external source
Thresholds ==
    {[given |-> FALSE, value |-> 0]}
      \cup {[given |-> TRUE, value |-> v] : v \in 0..(MaxItems + 1)}
SinceTexts == {Undefined, "", "soon"} \cup DateTexts
ItemLists == UNION {[1..n -> DateTexts] : n \in 0..MaxItems}
OracleRequests ==
    [fn : {"github", "figma"}, params : BOOLEAN, minimum : Thresholds,
     since : SinceTexts, upstream : {"ok", "error", "throw"}, items : ItemLists,
     reply : {NoReply}]

OracleInit ==
    /\ LedgerInit({NATIVE})
    /\ NoProject
    /\ oracle \in OracleRequests
    /\ deploy = NotDeploying

GithubOracle ==
    /\ oracle.fn = "github"
    /\ oracle.reply = NoReply
    /\ oracle' = [oracle EXCEPT !.reply = githubOracle(oracle)]
    /\ UNCHANGED <<ledgerVars, histVars, last, storeVars, sessVars, sentVars, deploy>>

FigmaOracle ==
    /\ oracle.fn = "figma"
    /\ oracle.reply = NoReply
    /\ oracle' = [oracle EXCEPT !.reply = figmaOracle(oracle)]
    /\ UNCHANGED <<ledgerVars, histVars, last, storeVars, sessVars, sentVars, deploy>>

OracleNext ==
    \/ GithubOracle
    \/ FigmaOracle

OracleSpec == OracleInit /\ [][OracleNext]_vars

\* the items of the request that count: all the commits returned, the
\* versions created at or after the timestamp when one is given
Counted ==
    IF oracle.fn = "github" \/ ~Truthy(oracle.since)
    THEN Len(oracle.items)
    ELSE Cardinality({k \in DOMAIN oracle.items :
                        DateOf(oracle.items[k]) >= DateOf(oracle.since)})

\* the threshold of the request, 1 when it names none
Threshold == IF oracle.minimum.given THEN oracle.minimum.value ELSE 1

\* C31: each oracle answers verified = true exactly when the counted items
\* reach the threshold: the commits returned for the repository oracle, the
\* versions created at or after the optional timestamp for the design-version
\* oracle, with a threshold of 1 when the request names none (for a complete
\* request the external source answered, with a timestamp that is a date)
C31_VerifiedIffThreshold ==
    oracle.reply # NoReply =>
       /\ (oracle.params /\ oracle.upstream = "ok"
             /\ (Truthy(oracle.since) => oracle.since \in DateTexts))
            => (oracle.reply.verified <=> Counted >= Threshold)
       /\ oracle.reply.verified => (oracle.params /\ oracle.upstream = "ok")

\* the design-version oracle, asked without a threshold and with a timestamp,
\* found one of two versions at or after it and answered verified
C31_Witness_FilteredDefault ==
    /\ oracle.fn = "figma"
    /\ ~oracle.minimum.given
    /\ oracle.since \in DateTexts
    /\ Len(oracle.items) = 2
    /\ oracle.reply.count = 1
    /\ oracle.reply.verified

\* ---- deployEscrowContract, called by CreateProject.handleSubmit ----
\* `for (let attempt = 1; attempt <= 5; attempt++)`
PollLimit == 5

\* what getTransactionReceipt gives for the deployment transaction: it
\* throws, finds no receipt yet, or finds the receipt of the mined
\* transaction; whether the receipt of a reverted creation carries a
\* contractAddress depends on the node
ThrownReceipt == [thrown |-> TRUE, found |-> FALSE, contractAddress |-> FALSE, status |-> 0]
MinedReceipt(code, address) ==
    [thrown |-> FALSE, found |-> TRUE, contractAddress |-> address, status |-> code]
ReceiptsOf(tx) ==
    {ThrownReceipt, NoReceipt}
      \cup (IF tx = "success" THEN {MinedReceipt(1, a) : a \in BOOLEAN}
            ELSE IF tx = "reverted" THEN {MinedReceipt(0, a) : a \in BOOLEAN}
            ELSE {})

\* one round of the receipt loop: "return" (an address is returned) or
\* "continue" (the catch inside the loop logs, and the loop goes on)
pollResult(receipt) ==
    IF receipt.thrown THEN "continue"
    ELSE IF ~receipt.found THEN "continue"
    ELSE IF receipt.contractAddress THEN "return"
    ELSE IF receipt.status = 1 THEN "return"
    ELSE "continue"

DeployUntouched ==
    UNCHANGED <<ledgerVars, histVars, last, sessVars, sentVars, oracle>>

\* handleSubmit is run: with skipContractDeployment the rows are inserted at
\* once, with status 'pending_contract'
SubmitProject(skip) ==
    /\ deploy.stage = "idle"
    /\ creation = "none"
    /\ IF skip
       THEN /\ deploy' = [deploy EXCEPT !.stage = "done"]
            /\ creation' = "inserted"
            /\ projectStatus' = "pending_contract"
       ELSE /\ deploy' = [deploy EXCEPT !.stage = "sending"]
            /\ UNCHANGED <<creation, projectStatus>>
    /\ UNCHANGED <<status, transactions, verificationLogs, vtype>>
    /\ DeployUntouched

\* factory.deploy(..): the transaction is sent, or the call throws (also
\* after its one retry)
DeploySend(ok) ==
    /\ deploy.stage = "sending"
    /\ deploy' = IF ok
                 THEN [deploy EXCEPT !.stage = "waiting", !.sent = TRUE, !.tx = "pending"]
                 ELSE [deploy EXCEPT !.stage = "raised", !.result = "rejected"]
    /\ UNCHANGED storeVars
    /\ DeployUntouched

\* the network mines the deployment transaction
TxMined(how) ==
    /\ deploy.tx = "pending"
    /\ deploy' = [deploy EXCEPT !.tx = how]
    /\ UNCHANGED storeVars
    /\ DeployUntouched

\* Promise.race resolves: waitForDeployment saw the contract deployed
WaitConfirmed ==
    /\ deploy.stage = "waiting"
    /\ deploy.tx = "success"
    /\ deploy' = [deploy EXCEPT !.stage = "returned", !.result = "address"]
    /\ UNCHANGED storeVars
    /\ DeployUntouched

\* Promise.race rejects: the 60 s timer fired, or waitForDeployment rejected
\* because the transaction reverted
WaitRejected ==
    /\ deploy.stage = "waiting"
    /\ deploy' = IF deploy.sent
                 THEN [deploy EXCEPT !.stage = "polling", !.attempt = 1]
                 ELSE [deploy EXCEPT !.stage = "raised", !.result = "nohash"]
    /\ UNCHANGED storeVars
    /\ DeployUntouched

\* one round of the receipt loop, and the throw after its last round
Poll(receipt) ==
    /\ deploy.stage = "polling"
    /\ receipt \in ReceiptsOf(deploy.tx)
    /\ deploy' =
         IF pollResult(receipt) = "return"
         THEN [deploy EXCEPT !.stage = "returned", !.result = "address",
                             !.receipt = receipt]
         ELSE IF deploy.attempt < PollLimit
         THEN [deploy EXCEPT !.attempt = @ + 1, !.receipt = receipt]
         ELSE [deploy EXCEPT !.stage = "raised", !.result = "pending",
                             !.receipt = receipt]
    /\ UNCHANGED storeVars
    /\ DeployUntouched

\* handleSubmit after deployEscrowContract returned an address: the project
\* row with status 'active' and the milestone rows
InsertProject ==
    /\ deploy.stage = "returned"
    /\ creation = "none"
    /\ deploy' = [deploy EXCEPT !.stage = "done"]
    /\ creation' = "inserted"
    /\ projectStatus' = "active"
    /\ UNCHANGED <<status, transactions, verificationLogs, vtype>>
    /\ DeployUntouched

DeployInit ==
    /\ LedgerInit({NATIVE})
    /\ NoProject
    /\ ToolsIdle

DeployNext ==
    \/ \E skip \in BOOLEAN : SubmitProject(skip)
    \/ \E ok \in BOOLEAN : DeploySend(ok)
    \/ \E how \in {"success", "reverted"} : TxMined(how)
    \/ WaitConfirmed
    \/ WaitRejected
    \/ \E receipt \in ReceiptsOf(deploy.tx) : Poll(receipt)
    \/ InsertProject
    \/ StartFirstMilestone

\* every await of deployEscrowContract settles: the wallet answers, the race
\* has its timer, the provider answers each receipt request
DeployFairness ==
    /\ WF_vars(\E ok \in BOOLEAN : DeploySend(ok))
    /\ WF_vars(WaitConfirmed \/ WaitRejected)
    /\ WF_vars(\E receipt \in ReceiptsOf(deploy.tx) : Poll(receipt))

DeploySpec == DeployInit /\ [][DeployNext]_vars /\ DeployFairness

\* C35: deployEscrowContract always terminates; it polls the receipt at most
\* PollLimit times and raises the pending condition only after the last
\* round, for a transaction that was sent (its hash is known); no project or
\* milestone row is written for a deployment that was not confirmed
C35_BoundedDeployment ==
    /\ [](deploy.attempt <= PollLimit)
    /\ [](deploy.result = "pending" => (deploy.sent /\ deploy.attempt = PollLimit))
    /\ (deploy.stage = "sending") ~> (deploy.stage \in {"returned", "raised", "done"})
    /\ []((creation # "none" /\ deploy.sent) => deploy.tx = "success")

\* the step is one round of the receipt loop
Polled ==
    /\ deploy.stage = "polling"
    /\ deploy'.attempt # deploy.attempt \/ deploy'.stage # deploy.stage

\* C36: when the receipt fetched after the confirmation timeout reports that
\* the deployment reverted (status 0), deployEscrowContract stops polling
\* and fails with the "deployment reverted" error
C36_RevertedStopsPolling ==
    [][(Polled /\ deploy'.receipt.found /\ deploy'.receipt.status = 0)
       => (deploy'.stage = "raised" /\ deploy'.result = "reverted")]_vars
====
